---- MODULE Spec2Model ----
(***************************************************************************)
(* A model of resource/resource.go: the resource-side Queue of cracklord.  *)
(* The Queue owns a map of live tasks (stack), a list of tools, a set of   *)
(* hardware tags and a sync.RWMutex.  Each RPC handler is modelled as the  *)
(* sequence of its statements that touch shared state, so that concurrent  *)
(* handlers interleave exactly where goroutines can.                       *)
(***************************************************************************)
EXTENDS Integers, Sequences, FiniteSets, TLC

\* ------------------------------------------------------------------ bounds
MaxCalls == 3            \* RPC calls issued in one behaviour
MaxTools == 1            \* tools registered through AddTool

Procs   == {"c1", "c2"}  \* goroutines serving RPC calls (net/rpc: one per call)
TaskIds == {"j1", "j2"}  \* values of Job.UUID
Tags    == {"gpu"}       \* values of Tooler.Requirements()
ToolIds == 1..(MaxTools + 1)  \* values of Job.ToolUUID; MaxTools+1 is never registered

\* --------------------------------------------------------------- constants
ERROR_AUTH    == "Call to resource did not have the proper authentication token."
ERROR_NO_TOOL == "Tool specified does not exit."
ERROR_NO_TASK == "Task with UUID provided does not exist."
START_PREFIX  == "Error starting task on the resource: "

\* The secret given to NewResourceQueue, and a token that differs from it.
Secret   == "secret"
BadToken == "wrong"
Tokens   == {Secret, BadToken}

\* Errors a Tooler / Tasker implementation can hand back (nil is "").
NoErr      == ""
FactoryErr == "factory failed"
RunErr     == "run failed"
PauseErr   == "pause failed"

VARIABLES
    stack,      \* q.stack: task id -> the Tasker stored under it.  A Tasker
                \* is reached only through q.stack[id] (and, before its
                \* insertion, through AddTask's local variable), so the map
                \* holds the Tasker's state itself
    orphans,    \* Taskers that a later insert under the same id replaced:
                \* no longer reachable, never told to quit
    tools,      \* q.tools: sequence of registered toolers
    hardware,   \* q.hardware: set of tags mapped to true
    authToken,  \* q.authToken
    lock,       \* the embedded sync.RWMutex
    pc,         \* where each serving goroutine stands
    call,       \* the rpc argument of the call a goroutine serves, and what
                \* the collaborators answered during it
    local,      \* AddTask's local variable tasker (NilTasker is nil)
    ret,        \* what the call has written through its reply pointer
    mcalls,     \* collaborator methods invoked by the call so far
    last,       \* the call that returned in the step just taken, with its
                \* error value, reply and invoked methods (NoLast otherwise)
    crashed,    \* the process died of a run-time panic
    regpc,      \* AddTool in progress: the tooler between its two writes
    ncalls,     \* number of calls issued so far
    failed,     \* some call returned a factory/start/pause/run error
    seq         \* the store and heap as a sequential execution of the
                \* completed critical sections would have left them

vars == <<stack, orphans, tools, hardware, authToken, lock, pc, call, local,
          ret, mcalls, last, crashed, regpc, ncalls, failed, seq>>

registry == <<tools, hardware, authToken, regpc>>

\* ------------------------------------------------------------------ values
Ops == {"ResourceHardware", "ResourceTools", "AddTask", "TaskStatus",
        "TaskPause", "TaskRun", "TaskQuit", "AllTaskStatus"}

\* rpc (common.RPCCall): Auth, Job.UUID, Job.ToolUUID; fErr, rErr, pErr
\* record what NewTask, Run and Pause answered during the call; late
\* records that the call was issued after some call returned a failure.
NoCall == [op |-> "none", auth |-> Secret, id |-> "j1", tool |-> 0,
           fErr |-> NoErr, rErr |-> NoErr, pErr |-> NoErr, late |-> FALSE]

NewCall(o, a, j, t) == [op |-> o, auth |-> a, id |-> j, tool |-> t,
                        fErr |-> NoErr, rErr |-> NoErr, pErr |-> NoErr,
                        late |-> failed]

\* error values: errors.New(msg), and errors.New(prefix + err.Error())
Nil          == [isErr |-> FALSE, pre |-> "", msg |-> ""]
ErrorNew(m)  == [isErr |-> TRUE, pre |-> "", msg |-> m]
ErrorWrap(pfx, m) == [isErr |-> TRUE, pre |-> pfx, msg |-> m]

NoMethods == [factory |-> 0, run |-> 0, pause |-> 0, quit |-> 0,
              status |-> 0, tool |-> 0]

\* A Tasker as the factory returns it, and the nil Tasker.
NewTasker(j, t, jt) == [id |-> j, tool |-> t, jobTool |-> jt, st |-> "created",
                        started |-> FALSE]
NilTasker == [id |-> "nil", tool |-> 0, jobTool |-> 0, st |-> "nil",
              started |-> FALSE]

NoLast == [p |-> "none", call |-> NoCall, res |-> Nil, ret |-> {},
           mcalls |-> NoMethods, local |-> NilTasker]

\* map[string]common.Tasker{}
EmptyStore == [j \in {} |-> 0]

\* The Job a Tasker's Status() or Quit() returns.
Snapshot(t) == [id |-> t.id, tool |-> t.tool, st |-> t.st]

\* ------------------------------------------------- the Tasker contract
\* common.Tasker: Run() error, Pause() error, Quit() Job, Status() Job.
\* A call that returns an error leaves the task's status as it was;
\* started records that Run() has been invoked on the task.
TaskerRun(t, err) ==
    IF err = NoErr THEN [t EXCEPT !.st = "running", !.started = TRUE]
                   ELSE [t EXCEPT !.started = TRUE]

TaskerPause(t, err) == IF err = NoErr THEN [t EXCEPT !.st = "paused"] ELSE t

TaskerQuit(t) == [t EXCEPT !.st = "quit"]

\* ------------------------------------------------------- sync.RWMutex
\* w: the goroutine that holds the writer mutex (it has announced itself
\* and either waits for the active readers to leave or holds the lock);
\* readers: the number of read locks held; rwait: goroutines blocked in
\* RLock behind a writer, admitted together when that writer unlocks.
NoWriter == "none"
FreeLock == [w |-> NoWriter, readers |-> 0, rwait |-> {}]

WriterFree(l)     == l.w = NoWriter
ReadersDrained(l) == l.readers = 0

RUnlocked(l) == [l EXCEPT !.readers = @ - 1]
Unlocked(l)  == [l EXCEPT !.w = NoWriter,
                          !.readers = @ + Cardinality(l.rwait),
                          !.rwait = {}]

\* ------------------------------------------------------------ helpers
\* one statement of the handler served by p: it moves to label l with
\* rpc/answers c, local tasker t, reply r and invoked methods m
Step(p, l, c, t, r, m) ==
    /\ pc' = [pc EXCEPT ![p] = l]
    /\ call' = [call EXCEPT ![p] = c]
    /\ local' = [local EXCEPT ![p] = t]
    /\ ret' = [ret EXCEPT ![p] = r]
    /\ mcalls' = [mcalls EXCEPT ![p] = m]
    /\ last' = NoLast

Goto(p, l) == Step(p, l, call[p], local[p], ret[p], mcalls[p])

\* the handler returns error value e; the goroutine ends
Return(p, c, e, r, m) ==
    /\ pc' = [pc EXCEPT ![p] = "idle"]
    /\ last' = [p |-> p, call |-> c, res |-> e, ret |-> r, mcalls |-> m,
                local |-> local[p]]
    /\ call' = [call EXCEPT ![p] = NoCall]
    /\ local' = [local EXCEPT ![p] = NilTasker]
    /\ ret' = [ret EXCEPT ![p] = {}]
    /\ mcalls' = [mcalls EXCEPT ![p] = NoMethods]

CSLabels == {"cs", "run", "status", "pquit", "delete", "unlock"}
InCS(p)  == pc[p] \in CSLabels
InCall(p) == pc[p] \notin {"idle", "panic"}

\* q.authToken comparison at the head of a handler
AuthOK(a) == a = authToken

\* indices of the tools whose UUID() equals the wanted identifier
MatchingTools(ts, u) == {i \in 1..Len(ts) : ts[i].uuid = u}

\* q.stack[id] = t
Inserted(st, j, t) == [k \in DOMAIN st \cup {j} |-> IF k = j THEN t ELSE st[k]]

\* the Tasker an insert under j makes unreachable, if any
Replaced(st, j) == IF j \in DOMAIN st THEN {st[j]} ELSE {}

\* q.stack[id].M(): the stored Tasker after its method ran
Applied(st, j, t) == [st EXCEPT ![j] = t]

\* (a delete that is left out)
Deleted_Kept(st, j) == st

\* delete(q.stack, id)
Deleted(st, j) == [k \in DOMAIN st \ {j} |-> st[k]]

\* _, ok := q.stack[id]
Present(st, j) == j \in DOMAIN st

\* --------------------------------------- sequential meaning of a handler
\* What the critical section of a handler does to the store and the heap
\* when it runs alone, given the answers its Tasker gave (recorded in c)
\* and, for AddTask, the tasker t its factory produced.
SeqPanic(s) == [s EXCEPT !.crashed = TRUE]

SeqAddTask(s, c, t) ==
    [s EXCEPT !.stack = Inserted(s.stack, c.id, TaskerRun(t, c.rErr)),
              !.orphans = @ \cup Replaced(s.stack, c.id)]

SeqTaskStatus(s, c) == IF Present(s.stack, c.id) THEN s ELSE SeqPanic(s)

SeqTaskPause(s, c) ==
    IF ~Present(s.stack, c.id) THEN SeqPanic(s)
    ELSE LET t == TaskerPause(s.stack[c.id], c.pErr)
         IN  [s EXCEPT !.stack = Applied(s.stack, c.id,
                                   IF c.pErr = NoErr THEN t ELSE TaskerQuit(t))]

SeqTaskRun(s, c) ==
    IF ~Present(s.stack, c.id) THEN SeqPanic(s)
    ELSE [s EXCEPT !.stack = Applied(s.stack, c.id,
                                     TaskerRun(s.stack[c.id], c.rErr))]

SeqTaskQuit(s, c) ==
    IF ~Present(s.stack, c.id) THEN SeqPanic(s)
    ELSE [s EXCEPT !.stack = Deleted(s.stack, c.id)]

SeqApply(s, c, t) ==
    CASE c.op = "AddTask"    -> SeqAddTask(s, c, t)
      [] c.op = "TaskStatus" -> SeqTaskStatus(s, c)
      [] c.op = "TaskPause"  -> SeqTaskPause(s, c)
      [] c.op = "TaskRun"    -> SeqTaskRun(s, c)
      [] c.op = "TaskQuit"   -> SeqTaskQuit(s, c)
      [] OTHER               -> s

\* a method call on a nil interface: the goroutine panics, net/rpc does
\* not recover, the process dies
Panic(p) ==
    /\ pc' = [pc EXCEPT ![p] = "panic"]
    /\ crashed' = TRUE
    /\ seq' = SeqApply(seq, call[p], local[p])
    /\ last' = NoLast
    /\ UNCHANGED <<call, local, ret, mcalls>>

\* ------------------------------------------------------------------ Init
\* NewResourceQueue(token)
Init ==
    /\ stack = EmptyStore
    /\ orphans = {}
    /\ tools = << >>
    /\ hardware = {}
    /\ authToken = Secret
    /\ lock = FreeLock
    /\ pc = [p \in Procs |-> "idle"]
    /\ call = [p \in Procs |-> NoCall]
    /\ local = [p \in Procs |-> NilTasker]
    /\ ret = [p \in Procs |-> {}]
    /\ mcalls = [p \in Procs |-> NoMethods]
    /\ last = NoLast
    /\ crashed = FALSE
    /\ regpc = "none"
    /\ ncalls = 0
    /\ failed = FALSE
    /\ seq = [stack |-> EmptyStore, orphans |-> {}, crashed |-> FALSE]

\* --------------------------------------------------------------- AddTool
\* The node registers its tools on its main goroutine, single-threaded:
\* AddTool runs while no handler is in progress, and it takes no lock.
Serving == \E p \in Procs : InCall(p)

\* q.hardware[tooler.Requirements()] = true
\* (a registration that does not record the tool's tag)
HardwareAdded_Dropped(hw, tag) == hw

HardwareAdded(hw, tag) == hw \cup {tag}

AddToolHardware ==
    /\ ~crashed /\ regpc = "none" /\ ~Serving
    /\ Len(tools) < MaxTools
    /\ \E tag \in Tags :
        /\ hardware' = HardwareAdded(hardware, tag)
        /\ regpc' = tag
    /\ last' = NoLast
    /\ UNCHANGED <<stack, orphans, tools, authToken, lock, pc, call, local,
                   ret, mcalls, crashed, ncalls, failed, seq>>

\* tooler.SetUUID(uuid.New()); q.tools = append(q.tools, tooler)
AddToolAppend ==
    /\ ~crashed /\ regpc # "none"
    /\ tools' = Append(tools, [uuid |-> Len(tools) + 1, req |-> regpc])
    /\ regpc' = "none"
    /\ last' = NoLast
    /\ UNCHANGED <<stack, orphans, hardware, authToken, lock, pc, call, local,
                   ret, mcalls, crashed, ncalls, failed, seq>>

\* ------------------------------------------------- entering a handler
\* net/rpc starts the handler in a goroutine of its own
Enter(p) ==
    /\ ~crashed
    /\ pc[p] = "idle"
    /\ regpc = "none"
    /\ ncalls < MaxCalls
    /\ ncalls' = ncalls + 1
    /\ UNCHANGED <<stack, orphans, registry, lock, crashed, failed, seq>>

\* if rpc.Auth != q.authToken { return errors.New(ERROR_AUTH) }
Checked(p, c, first) ==
    /\ Enter(p)
    /\ IF AuthOK(c.auth)
       THEN Step(p, first, c, NilTasker, {}, NoMethods)
       ELSE Return(p, c, ErrorNew(ERROR_AUTH), {}, NoMethods)

\* The Job of a call is read only after the token comparison, so the
\* calls with a wrong token are enumerated with one Job each.
JobsFor(a) == IF a = Secret THEN TaskIds ELSE {"j1"}
ToolsFor(a) == IF a = Secret THEN ToolIds ELSE {MaxTools + 1}

\* the lock each handler asks for after the token comparison:
\* "rlock" is q.RLock(), "lock" is q.Lock()
\* (a ResourceHardware that reads q.hardware without q.RLock())
ResourceHardwareFirst_NoLock == "rbody"
ResourceHardwareFirst == "rlock"
ResourceToolsFirst    == "rlock"
AddTaskFirst          == "rlock"
TaskStatusFirst       == "lock"
TaskPauseFirst        == "lock"
\* (a TaskRun that goes to its lookup without q.Lock())
TaskRunFirst_NoLock   == "cs"
TaskRunFirst          == "lock"
\* (a TaskQuit that goes to its lookup without q.Lock())
TaskQuitFirst_NoLock  == "cs"
TaskQuitFirst         == "lock"
AllTaskStatusFirst    == "lock"

CallResourceHardware(p) ==
    \E a \in Tokens :
        Checked(p, NewCall("ResourceHardware", a, "j1", 0), ResourceHardwareFirst)

CallAddTask(p) ==
    \E a \in Tokens : \E j \in JobsFor(a), t \in ToolsFor(a) :
        Checked(p, NewCall("AddTask", a, j, t), AddTaskFirst)

CallTaskStatus(p) ==
    \E a \in Tokens : \E j \in JobsFor(a) :
        Checked(p, NewCall("TaskStatus", a, j, 0), TaskStatusFirst)

CallTaskPause(p) ==
    \E a \in Tokens : \E j \in JobsFor(a) :
        Checked(p, NewCall("TaskPause", a, j, 0), TaskPauseFirst)

CallTaskRun(p) ==
    \E a \in Tokens : \E j \in JobsFor(a) :
        Checked(p, NewCall("TaskRun", a, j, 0), TaskRunFirst)

CallTaskQuit(p) ==
    \E a \in Tokens : \E j \in JobsFor(a) :
        Checked(p, NewCall("TaskQuit", a, j, 0), TaskQuitFirst)

CallAllTaskStatus(p) ==
    \E a \in Tokens :
        Checked(p, NewCall("AllTaskStatus", a, "j1", 0), AllTaskStatusFirst)

\* ResourceTools has no token comparison: it goes straight to q.RLock()
CallResourceTools(p) ==
    \E a \in Tokens :
        /\ Enter(p)
        /\ Step(p, ResourceToolsFirst, NewCall("ResourceTools", a, "j1", 0),
                NilTasker, {}, NoMethods)

\* ------------------------------------------- q.RLock() / q.Lock()
\* q.RLock(): taken at once unless a writer holds or awaits the lock
RLockStep(p) ==
    /\ ~crashed /\ pc[p] = "rlock"
    /\ IF WriterFree(lock)
       THEN /\ lock' = [lock EXCEPT !.readers = @ + 1]
            /\ Goto(p, "rbody")
       ELSE /\ lock' = [lock EXCEPT !.rwait = @ \cup {p}]
            /\ Goto(p, "rwait")
    /\ UNCHANGED <<stack, orphans, registry, crashed, ncalls, failed, seq>>

\* a reader blocked in q.RLock() goes on once the writer unlocked
RLockGranted(p) ==
    /\ ~crashed /\ pc[p] = "rwait"
    /\ p \notin lock.rwait
    /\ Goto(p, "rbody")
    /\ UNCHANGED <<stack, orphans, registry, lock, crashed, ncalls, failed, seq>>

\* q.Lock(), first half: take the writer mutex, shutting new readers out
LockStep(p) ==
    /\ ~crashed /\ pc[p] = "lock"
    /\ WriterFree(lock)
    /\ lock' = [lock EXCEPT !.w = p]
    /\ Goto(p, "lwait")
    /\ UNCHANGED <<stack, orphans, registry, crashed, ncalls, failed, seq>>

\* q.Lock(), second half: go on when the active readers have left
LockAcquire(p) ==
    /\ ~crashed /\ pc[p] = "lwait"
    /\ ReadersDrained(lock)
    /\ Goto(p, "cs")
    /\ UNCHANGED <<stack, orphans, registry, lock, crashed, ncalls, failed, seq>>

\* q.Unlock(); return nil  (the common tail of the exclusive handlers)
UnlockReturn(p) ==
    /\ ~crashed /\ pc[p] = "unlock"
    /\ lock' = Unlocked(lock)
    /\ Return(p, call[p], Nil, ret[p], mcalls[p])
    /\ seq' = SeqApply(seq, call[p], local[p])
    /\ UNCHANGED <<stack, orphans, registry, crashed, ncalls, failed>>

\* return nil with the deferred q.RUnlock() (ResourceHardware, ResourceTools)
RUnlockReturn(p) ==
    /\ ~crashed /\ pc[p] = "runlock"
    /\ call[p].op \in {"ResourceHardware", "ResourceTools"}
    /\ lock' = RUnlocked(lock)
    /\ Return(p, call[p], Nil, ret[p], mcalls[p])
    /\ UNCHANGED <<stack, orphans, registry, crashed, ncalls, failed, seq>>

\* ------------------------------------------------- ResourceHardware
\* *hw = q.hardware
ResourceHardwareBody(p) ==
    /\ ~crashed /\ pc[p] = "rbody" /\ call[p].op = "ResourceHardware"
    /\ Step(p, "runlock", call[p], local[p], hardware, mcalls[p])
    /\ UNCHANGED <<stack, orphans, registry, lock, crashed, ncalls, failed, seq>>

\* ---------------------------------------------------- ResourceTools
\* the loop over q.tools: six Tooler methods per tool
ResourceToolsBody(p) ==
    /\ ~crashed /\ pc[p] = "rbody" /\ call[p].op = "ResourceTools"
    /\ Step(p, "runlock", call[p], local[p],
            {tools[i] : i \in 1..Len(tools)},
            [mcalls[p] EXCEPT !.tool = @ + 6 * Len(tools)])
    /\ UNCHANGED <<stack, orphans, registry, lock, crashed, ncalls, failed, seq>>

\* ---------------------------------------------------------- AddTask
\* the scan of q.tools under the read lock: UUID() of each tool, and the
\* matching tool's NewTask.  A factory error returns at once, without
\* q.RUnlock().
\* (a scan that takes every tool for a match)
ScanMatch_Any(ts, u) == 1..Len(ts)

ScanMatch(ts, u) == MatchingTools(ts, u)

\* if err != nil { return err }   (the factory's error)
\* (an AddTask that wraps the factory error as it wraps the start error)
FactoryFailure_Wrapped(c) == ErrorWrap(START_PREFIX, c.fErr)

FactoryFailure(c) == ErrorNew(c.fErr)

AddTaskScan(p) ==
    /\ ~crashed /\ pc[p] = "rbody" /\ call[p].op = "AddTask"
    /\ LET m == ScanMatch(tools, call[p].tool) IN
       IF m = {}
       THEN /\ Step(p, "runlock", call[p], NilTasker, ret[p],
                    [mcalls[p] EXCEPT !.tool = @ + Len(tools)])
            /\ UNCHANGED failed
       ELSE \E i \in m, e \in {NoErr, FactoryErr} :
            IF e # NoErr
            THEN /\ Return(p, [call[p] EXCEPT !.fErr = e],
                           FactoryFailure([call[p] EXCEPT !.fErr = e]), ret[p],
                           [mcalls[p] EXCEPT !.tool = @ + i, !.factory = @ + 1])
                 /\ failed' = TRUE
            ELSE /\ Step(p, "runlock", call[p],
                         NewTasker(call[p].id, tools[i].uuid, call[p].tool),
                         ret[p],
                         [mcalls[p] EXCEPT !.tool = @ + Len(tools),
                                           !.factory = @ + 1])
                 /\ UNCHANGED failed
    /\ UNCHANGED <<stack, orphans, registry, lock, crashed, ncalls, seq>>

\* q.RUnlock(); if tasker == nil { return errors.New(ERROR_NO_TOOL) }
AddTaskRUnlock(p) ==
    /\ ~crashed /\ pc[p] = "runlock" /\ call[p].op = "AddTask"
    /\ lock' = RUnlocked(lock)
    /\ IF local[p] = NilTasker
       THEN Return(p, call[p], ErrorNew(ERROR_NO_TOOL), ret[p], mcalls[p])
       ELSE Goto(p, "lock")
    /\ UNCHANGED <<stack, orphans, registry, crashed, ncalls, failed, seq>>

\* q.stack[rpc.Job.UUID] = tasker
AddTaskInsert(p) ==
    /\ ~crashed /\ pc[p] = "cs" /\ call[p].op = "AddTask"
    /\ stack' = Inserted(stack, call[p].id, local[p])
    /\ orphans' = orphans \cup Replaced(stack, call[p].id)
    /\ Goto(p, "run")
    /\ UNCHANGED <<registry, lock, crashed, ncalls, failed, seq>>

\* err = q.stack[rpc.Job.UUID].Run(); a start error is wrapped and
\* returned at once, without q.Unlock()
\* (an AddTask that stores the task and does not start it)
AddTaskStart_Skipped(t, err) == t

AddTaskStart(t, err) == TaskerRun(t, err)

\* return errors.New("Error starting task on the resource: " + err.Error())
\* (an AddTask that returns the start error as it is)
StartFailure_Bare(c) == ErrorNew(c.rErr)

StartFailure(c) == ErrorWrap(START_PREFIX, c.rErr)

AddTaskRun(p) ==
    /\ ~crashed /\ pc[p] = "run" /\ call[p].op = "AddTask"
    /\ IF ~Present(stack, call[p].id)
       THEN Panic(p) /\ UNCHANGED <<stack, failed>>
       ELSE \E e \in {NoErr, RunErr} :
            LET c == [call[p] EXCEPT !.rErr = e]
                m == [mcalls[p] EXCEPT !.run = @ + 1]
            IN  /\ stack' = Applied(stack, c.id, AddTaskStart(stack[c.id], e))
                /\ IF e # NoErr
                   THEN /\ Return(p, c, StartFailure(c), ret[p], m)
                        /\ failed' = TRUE
                        /\ seq' = SeqApply(seq, c, local[p])
                   ELSE /\ Step(p, "status", c, local[p], ret[p], m)
                        /\ UNCHANGED <<failed, seq>>
                /\ UNCHANGED crashed
    /\ UNCHANGED <<orphans, registry, lock, ncalls>>

\* *rj = q.stack[rpc.Job.UUID].Status()   (AddTask, TaskPause, TaskRun)
StatusStep(p) ==
    /\ ~crashed /\ pc[p] = "status"
    /\ IF ~Present(stack, call[p].id)
       THEN Panic(p)
       ELSE /\ Step(p, "unlock", call[p], local[p],
                    {Snapshot(stack[call[p].id])},
                    [mcalls[p] EXCEPT !.status = @ + 1])
            /\ UNCHANGED <<crashed, seq>>
    /\ UNCHANGED <<stack, orphans, registry, lock, ncalls, failed>>

\* ------------------------------------------------------- TaskStatus
\* _, ok := q.stack[id]; the "bad UUID" branch builds an error and drops
\* it; *j = q.stack[id].Status() then calls a method on a nil interface
\* when the id is absent.
TaskStatusBody(p) ==
    /\ ~crashed /\ pc[p] = "cs" /\ call[p].op = "TaskStatus"
    /\ IF ~Present(stack, call[p].id)
       THEN Panic(p)
       ELSE /\ Step(p, "unlock", call[p], local[p],
                    {Snapshot(stack[call[p].id])},
                    [mcalls[p] EXCEPT !.status = @ + 1])
            /\ UNCHANGED <<crashed, seq>>
    /\ UNCHANGED <<stack, orphans, registry, lock, ncalls, failed>>

\* -------------------------------------------------------- TaskPause
\* err := q.stack[id].Pause()
TaskPauseBody(p) ==
    /\ ~crashed /\ pc[p] = "cs" /\ call[p].op = "TaskPause"
    /\ IF ~Present(stack, call[p].id)
       THEN Panic(p) /\ UNCHANGED stack
       ELSE \E e \in {NoErr, PauseErr} :
            /\ stack' = Applied(stack, call[p].id,
                                TaskerPause(stack[call[p].id], e))
            /\ Step(p, IF e = NoErr THEN "status" ELSE "pquit",
                    [call[p] EXCEPT !.pErr = e], local[p], ret[p],
                    [mcalls[p] EXCEPT !.pause = @ + 1])
            /\ UNCHANGED <<crashed, seq>>
    /\ UNCHANGED <<orphans, registry, lock, ncalls, failed>>

\* if err != nil { q.stack[id].Quit(); return err }  -- no q.Unlock()
\* (a handler that wraps the pause error as AddTask wraps the start error)
PauseFailure_Wrapped(c) == ErrorWrap(START_PREFIX, c.pErr)

PauseFailure(c) == ErrorNew(c.pErr)

TaskPauseQuit(p) ==
    /\ ~crashed /\ pc[p] = "pquit"
    /\ IF ~Present(stack, call[p].id)
       THEN Panic(p) /\ UNCHANGED <<stack, failed>>
       ELSE /\ stack' = Applied(stack, call[p].id, TaskerQuit(stack[call[p].id]))
            /\ Return(p, call[p], PauseFailure(call[p]), ret[p],
                      [mcalls[p] EXCEPT !.quit = @ + 1])
            /\ failed' = TRUE
            /\ seq' = SeqApply(seq, call[p], local[p])
            /\ UNCHANGED crashed
    /\ UNCHANGED <<orphans, registry, lock, ncalls>>

\* ---------------------------------------------------------- TaskRun
\* err := q.stack[id].Run(); if err != nil { return err }  -- no q.Unlock()
\* (a TaskRun that wraps the run error as AddTask wraps the start error)
RunFailure_Wrapped(c) == ErrorWrap(START_PREFIX, c.rErr)

RunFailure(c) == ErrorNew(c.rErr)

TaskRunBody(p) ==
    /\ ~crashed /\ pc[p] = "cs" /\ call[p].op = "TaskRun"
    /\ IF ~Present(stack, call[p].id)
       THEN Panic(p) /\ UNCHANGED <<stack, failed>>
       ELSE \E e \in {NoErr, RunErr} :
            LET c == [call[p] EXCEPT !.rErr = e]
                m == [mcalls[p] EXCEPT !.run = @ + 1]
            IN  /\ stack' = Applied(stack, c.id, TaskerRun(stack[c.id], e))
                /\ IF e # NoErr
                   THEN /\ Return(p, c, RunFailure(c), ret[p], m)
                        /\ failed' = TRUE
                        /\ seq' = SeqApply(seq, c, local[p])
                   ELSE /\ Step(p, "status", c, local[p], ret[p], m)
                        /\ UNCHANGED <<failed, seq>>
                /\ UNCHANGED crashed
    /\ UNCHANGED <<orphans, registry, lock, ncalls>>

\* --------------------------------------------------------- TaskQuit
\* *j = q.stack[id].Quit()
TaskQuitBody(p) ==
    /\ ~crashed /\ pc[p] = "cs" /\ call[p].op = "TaskQuit"
    /\ IF ~Present(stack, call[p].id)
       THEN Panic(p) /\ UNCHANGED stack
       ELSE /\ stack' = Applied(stack, call[p].id, TaskerQuit(stack[call[p].id]))
            /\ Step(p, "delete", call[p], local[p],
                    {Snapshot(TaskerQuit(stack[call[p].id]))},
                    [mcalls[p] EXCEPT !.quit = @ + 1])
            /\ UNCHANGED <<crashed, seq>>
    /\ UNCHANGED <<orphans, registry, lock, ncalls, failed>>

\* delete(q.stack, rpc.Job.UUID)
TaskQuitDelete(p) ==
    /\ ~crashed /\ pc[p] = "delete"
    /\ stack' = Deleted(stack, call[p].id)
    /\ Goto(p, "unlock")
    /\ UNCHANGED <<orphans, registry, lock, crashed, ncalls, failed, seq>>

\* ---------------------------------------------------- AllTaskStatus
\* for i := range q.stack { jobs = append(jobs, q.stack[i].Status()) }
AllTaskStatusBody(p) ==
    /\ ~crashed /\ pc[p] = "cs" /\ call[p].op = "AllTaskStatus"
    /\ Step(p, "unlock", call[p], local[p],
            {Snapshot(stack[j]) : j \in DOMAIN stack},
            [mcalls[p] EXCEPT !.status = @ + Cardinality(DOMAIN stack)])
    /\ UNCHANGED <<stack, orphans, registry, lock, crashed, ncalls, failed, seq>>

\* a goroutine that cannot go on until another one releases the lock
Blocked(p) ==
    \/ pc[p] = "rlock" /\ ~WriterFree(lock)
    \/ pc[p] = "rwait" /\ p \in lock.rwait
    \/ pc[p] = "lock"  /\ ~WriterFree(lock)
    \/ pc[p] = "lwait" /\ ~ReadersDrained(lock)

\* ------------------------------------------------------------- Next
Next ==
    \/ AddToolHardware
    \/ AddToolAppend
    \/ \E p \in Procs : CallResourceHardware(p)
    \/ \E p \in Procs : CallResourceTools(p)
    \/ \E p \in Procs : CallAddTask(p)
    \/ \E p \in Procs : CallTaskStatus(p)
    \/ \E p \in Procs : CallTaskPause(p)
    \/ \E p \in Procs : CallTaskRun(p)
    \/ \E p \in Procs : CallTaskQuit(p)
    \/ \E p \in Procs : CallAllTaskStatus(p)
    \/ \E p \in Procs : RLockStep(p)
    \/ \E p \in Procs : RLockGranted(p)
    \/ \E p \in Procs : LockStep(p)
    \/ \E p \in Procs : LockAcquire(p)
    \/ \E p \in Procs : UnlockReturn(p)
    \/ \E p \in Procs : RUnlockReturn(p)
    \/ \E p \in Procs : ResourceHardwareBody(p)
    \/ \E p \in Procs : ResourceToolsBody(p)
    \/ \E p \in Procs : AddTaskScan(p)
    \/ \E p \in Procs : AddTaskRUnlock(p)
    \/ \E p \in Procs : AddTaskInsert(p)
    \/ \E p \in Procs : AddTaskRun(p)
    \/ \E p \in Procs : StatusStep(p)
    \/ \E p \in Procs : TaskStatusBody(p)
    \/ \E p \in Procs : TaskPauseBody(p)
    \/ \E p \in Procs : TaskPauseQuit(p)
    \/ \E p \in Procs : TaskRunBody(p)
    \/ \E p \in Procs : TaskQuitBody(p)
    \/ \E p \in Procs : TaskQuitDelete(p)
    \/ \E p \in Procs : AllTaskStatusBody(p)

Spec == Init /\ [][Next]_vars

\* =================================================================
\* Properties
\* =================================================================
Returned     == last.p # "none"
ReturnedOp(o) == Returned /\ last.call.op = o
AuthError    == ErrorNew(ERROR_AUTH)
TaskOps      == {"TaskStatus", "TaskPause", "TaskRun", "TaskQuit"}
Lifecycle    == {"TaskPause", "TaskRun", "TaskQuit"}
HoldsLock(p) == pc[p] \in CSLabels \cup {"rbody", "runlock"}
Registered(u) == MatchingTools(tools, u) # {}
\* the step just taken is a statement of the handler p serves
Moves(p)     == pc'[p] # pc[p]

\* C1: every RPC operation called with a token different from the
\* configured one returns the Authentication error.
C1_WrongTokenIsRejected ==
    (Returned /\ last.call.auth # authToken) => last.res = AuthError

\* C2: TaskStatus, TaskPause, TaskRun and TaskQuit with a valid token and
\* an identifier absent from the store return No-Such-Task: the statement
\* after the lookup returns that error, no Task method has been invoked,
\* the process has not crashed and the store is as it was.
C2_AbsentTaskIsRefused ==
    [][\A p \in Procs :
        (/\ pc[p] = "cs" /\ call[p].op \in TaskOps
         /\ AuthOK(call[p].auth)
         /\ ~Present(stack, call[p].id)
         /\ Moves(p))
        => (/\ ~crashed'
            /\ last'.p = p
            /\ last'.res = ErrorNew(ERROR_NO_TASK)
            /\ last'.mcalls = NoMethods
            /\ stack' = stack)]_vars

\* C3: after a single-task failure (factory, start, pause or run error)
\* has been returned, every later authenticated call eventually returns.
\* Stated so that a finite run refutes it: a later authenticated call is
\* never in a state where every call in progress waits for a lock that
\* only another call in progress could release.
C3_KeepsServingAfterFailure ==
    (failed /\ ~crashed) =>
        \A p \in Procs :
            (InCall(p) /\ call[p].late /\ AuthOK(call[p].auth))
            => \E q \in Procs : InCall(q) /\ ~Blocked(q)

\* C4: a call with a mismatched token is rejected before any state is
\* touched: it returns at once, the store, the registry, the hardware set
\* and the lock are as before, and no Task or Tool method is invoked; so
\* no goroutine serving such a call ever holds the lock or has invoked a
\* method.
C4_WrongTokenTouchesNothing ==
    /\ [](\A p \in Procs :
            call[p].auth # authToken
            => ~HoldsLock(p) /\ mcalls[p] = NoMethods)
    /\ [][(Returned' /\ last'.call.auth # authToken)
          => (/\ last'.mcalls = NoMethods
              /\ UNCHANGED <<stack, orphans, tools, hardware, lock>>)]_vars

\* C5: AddTask with a valid token and a tool identifier that matches no
\* registered tool returns No-Such-Tool, invokes no factory and leaves
\* the store unchanged; every Task in the store was produced by the
\* factory of a registered tool whose identifier is the Job's.
C5_UnknownToolIsRefused ==
    /\ []((ReturnedOp("AddTask") /\ AuthOK(last.call.auth)
           /\ ~Registered(last.call.tool))
          => (last.res = ErrorNew(ERROR_NO_TOOL) /\ last.mcalls.factory = 0))
    /\ [](\A j \in DOMAIN stack :
            /\ stack[j].id = j
            /\ stack[j].tool = stack[j].jobTool
            /\ Registered(stack[j].tool))
    /\ [][\A p \in Procs :
            (call[p].op = "AddTask" /\ ~Registered(call[p].tool) /\ Moves(p))
            => stack' = stack]_vars

C5_Witness ==
    /\ ReturnedOp("AddTask") /\ AuthOK(last.call.auth)
    /\ Len(tools) > 0 /\ ~Registered(last.call.tool)
    /\ last.res = ErrorNew(ERROR_NO_TOOL)
    /\ stack # EmptyStore

\* C6: when TaskPause is called on a stored task and the task's pause
\* fails, the Queue invokes Quit on that task exactly once and returns
\* the pause error itself.
C6_PauseFailureQuitsOnce ==
    (ReturnedOp("TaskPause") /\ last.call.pErr # NoErr)
    => (/\ last.mcalls.pause = 1
        /\ last.mcalls.quit = 1
        /\ Present(stack, last.call.id)
        /\ stack[last.call.id].st = "quit"
        /\ last.res = [isErr |-> TRUE, pre |-> "", msg |-> last.call.pErr])

C6_Witness ==
    /\ ReturnedOp("TaskPause") /\ last.call.pErr = PauseErr
    /\ last.mcalls.quit = 1

\* C7: TaskQuit with a valid token on a stored identifier invokes Quit on
\* that task exactly once, returns the Job Quit produced and removes the
\* identifier; an absent identifier comes back only through AddTask's
\* insert, and AllTaskStatus returns exactly the stored identifiers.
C7_QuitRemoves ==
    /\ [](ReturnedOp("TaskQuit") /\ ~last.res.isErr
          => (/\ last.mcalls.quit = 1
              /\ \E t \in ToolIds : last.ret =
                    {[id |-> last.call.id, tool |-> t, st |-> "quit"]}
              /\ ~Present(stack, last.call.id)))
    /\ [](ReturnedOp("AllTaskStatus") /\ ~last.res.isErr
          => {job.id : job \in last.ret} = DOMAIN stack)
    /\ [][\A j \in TaskIds :
            (~Present(stack, j) /\ Present(stack', j))
            => \E p \in Procs : /\ call[p].op = "AddTask" /\ call[p].id = j
                                /\ pc[p] = "cs" /\ pc'[p] = "run"]_vars

C7_Witness ==
    /\ ReturnedOp("TaskQuit") /\ ~last.res.isErr
    /\ ~Present(stack, last.call.id)
    /\ stack # EmptyStore

\* C8: whenever AddTask returns success the task is in the store under
\* the Job's identifier and Run has been invoked on it and succeeded; a
\* TaskStatus never reports a merely created task; a stored task on which
\* Run has not been invoked is seen by no goroutine but the AddTask that
\* inserted it, which holds the exclusive lock.
C8_AddedTaskIsStarted ==
    /\ (ReturnedOp("AddTask") /\ ~last.res.isErr)
       => (/\ Present(stack, last.call.id)
           /\ stack[last.call.id].started
           /\ stack[last.call.id].st = "running"
           /\ last.mcalls.run = 1
           /\ last.ret = {Snapshot(stack[last.call.id])})
    /\ (ReturnedOp("TaskStatus") /\ ~last.res.isErr)
       => \A job \in last.ret : job.st # "created"
    /\ \A j \in DOMAIN stack :
          ~stack[j].started
          => \E p \in Procs :
                /\ pc[p] = "run" /\ call[p].op = "AddTask" /\ call[p].id = j
                /\ lock.w = p
                /\ \A q \in Procs \ {p} : ~HoldsLock(q)

C8_Witness ==
    /\ ReturnedOp("AddTask") /\ ~last.res.isErr
    /\ stack[last.call.id].st = "running"

\* C9: concurrent AddTask calls with valid tokens, registered tool
\* identifiers, pairwise distinct task identifiers and factories and
\* starts that succeed all return success under every interleaving, and
\* the store then holds the previous identifiers plus the added ones.
\* Stated so that a finite run refutes it: while only such calls are in
\* progress one of them can go on, each of them that returns returns
\* success with its identifier stored, and none of their statements
\* removes an identifier.
GoodAdd(c) == /\ c.op = "AddTask" /\ AuthOK(c.auth) /\ Registered(c.tool)
              /\ c.fErr = NoErr /\ c.rErr = NoErr

OnlyGoodAdds ==
    /\ \E p \in Procs : InCall(p)
    /\ \A p \in Procs : InCall(p) => GoodAdd(call[p])
    /\ \A p, q \in Procs :
          (InCall(p) /\ InCall(q) /\ p # q) => call[p].id # call[q].id

C9_ConcurrentAddsSucceed ==
    /\ (OnlyGoodAdds /\ ~crashed) => \E p \in Procs : InCall(p) /\ ~Blocked(p)
    /\ (Returned /\ GoodAdd(last.call))
       => (~last.res.isErr /\ Present(stack, last.call.id))

\* C10: concurrent TaskPause, TaskRun and TaskQuit calls against the same
\* identifier are serialized: at most one of them is between its lookup
\* and the end of its Task operation, and whenever no critical section is
\* open the store and the tasks are what the completed calls leave when
\* run one after the other.
C10_LifecycleSerialized ==
    /\ \A p, q \in Procs :
          (/\ p # q
           /\ call[p].op \in Lifecycle /\ call[q].op \in Lifecycle
           /\ call[p].id = call[q].id)
          => ~(InCS(p) /\ InCS(q))
    /\ (\A p \in Procs : ~InCS(p))
       => (/\ seq.stack = stack
           /\ seq.orphans = orphans
           /\ seq.crashed = crashed)

C10_Witness ==
    \E p, q \in Procs :
        /\ p # q
        /\ call[p].op = "TaskQuit" /\ call[q].op = "TaskRun"
        /\ call[p].id = call[q].id
        /\ pc[p] = "delete" /\ pc[q] = "lock"

\* C11: when the matched tool's factory fails in AddTask, the factory's
\* error is returned as it is, the returning step leaves the store as it
\* was, and the call has invoked no Task method.
C11_FactoryErrorVerbatim ==
    /\ []((ReturnedOp("AddTask") /\ last.call.fErr # NoErr)
          => (/\ last.res = [isErr |-> TRUE, pre |-> "", msg |-> last.call.fErr]
              /\ last.mcalls.factory = 1
              /\ last.mcalls.run = 0 /\ last.mcalls.pause = 0
              /\ last.mcalls.quit = 0 /\ last.mcalls.status = 0))
    /\ [][(/\ last'.p # "none" /\ last'.call.op = "AddTask"
           /\ last'.call.fErr # NoErr)
          => (stack' = stack /\ orphans' = orphans)]_vars

C11_Witness ==
    /\ ReturnedOp("AddTask") /\ last.call.fErr = FactoryErr
    /\ last.res = ErrorNew(FactoryErr)
    /\ stack # EmptyStore

\* C12: when the start of the newly created task fails, AddTask returns
\* an error that wraps the start error, and the task its factory created
\* stays in the store under the Job's identifier, with Run invoked on it.
C12_StartErrorWrapped ==
    (ReturnedOp("AddTask") /\ last.call.rErr # NoErr)
    => (/\ last.res = [isErr |-> TRUE, pre |-> START_PREFIX,
                       msg |-> last.call.rErr]
        /\ last.res # ErrorNew(last.call.rErr)
        /\ Present(stack, last.call.id)
        /\ stack[last.call.id] = [last.local EXCEPT !.started = TRUE]
        /\ stack[last.call.id].id = last.call.id)

C12_Witness ==
    /\ ReturnedOp("AddTask") /\ last.call.rErr = RunErr
    /\ Present(stack, last.call.id)
    /\ last.res = ErrorWrap(START_PREFIX, RunErr)

\* C13: when TaskRun is called on a stored task and the task's Run fails,
\* TaskRun returns that error as it is, has invoked Run once and no other
\* Task method, and the returning step keeps every stored identifier.
C13_RunErrorUnchanged ==
    /\ []((ReturnedOp("TaskRun") /\ last.call.rErr # NoErr)
          => (/\ last.res = [isErr |-> TRUE, pre |-> "", msg |-> last.call.rErr]
              /\ last.mcalls = [NoMethods EXCEPT !.run = 1]
              /\ Present(stack, last.call.id)))
    /\ [][(/\ last'.p # "none" /\ last'.call.op = "TaskRun"
           /\ last'.call.rErr # NoErr)
          => (DOMAIN stack' = DOMAIN stack /\ orphans' = orphans)]_vars

C13_Witness ==
    /\ ReturnedOp("TaskRun") /\ last.call.rErr = RunErr
    /\ last.res = ErrorNew(RunErr)
    /\ stack[last.call.id].st = "running"

\* C14: the hardware set ResourceHardware returns is exactly the set of
\* requirement tags of the registered tools, the hardware set equals that
\* set whenever no registration is half done, and no statement of an RPC
\* handler changes the hardware set or the tool registry.
ToolTags == {tools[i].req : i \in 1..Len(tools)}

Quiescent == \A p \in Procs : pc[p] = "idle"

\* Run has been invoked on the Task and Quit has not
Live(t) == t.started /\ t.st # "quit"

\* C15: in every state in which no operation is in progress, no store
\* entry refers to a Task on which Quit has been invoked, including after
\* a TaskPause whose pause failed.
C15_NoTerminatedTaskStored ==
    Quiescent => \A j \in DOMAIN stack : stack[j].st # "quit"

\* C16: for each task identifier there is at most one Task that has been
\* created and started and not yet terminated, also when AddTask is called
\* with an identifier that is already in the store.
LiveOrphans(j) == {t \in orphans : t.id = j /\ Live(t)}

C16_OneLiveTaskPerId ==
    \A j \in TaskIds :
        /\ Cardinality(LiveOrphans(j)) <= 1
        /\ LiveOrphans(j) # {} => ~(Present(stack, j) /\ Live(stack[j]))

\* C17: TaskQuit is the only operation that removes an entry: across
\* every step each stored identifier is still stored and refers to the
\* same Task instance, unless the step is the delete of a TaskQuit that
\* has invoked Quit on it.  (Run has been invoked on every stored Task a
\* new insert can meet and on no Task just inserted, so a stored Task
\* that goes from started to not started has been replaced.)
SameInstance(t, u) == ~(t.started /\ ~u.started)

C17_OnlyQuitRemoves ==
    [][\A j \in DOMAIN stack :
        \/ Present(stack', j) /\ SameInstance(stack[j], stack'[j])
        \/ \E p \in Procs :
              /\ call[p].op = "TaskQuit" /\ call[p].id = j
              /\ pc[p] = "delete" /\ pc'[p] = "unlock"
              /\ stack[j].st = "quit"]_vars

\* C18 (as stated): every mutation of the task store, of the tool
\* registry and of the hardware set is performed while the mutating
\* operation holds the exclusive lock.
C18_MutationsUnderExclusiveLock ==
    [][(stack' # stack \/ tools' # tools \/ hardware' # hardware)
       => \E p \in Procs : lock.w = p /\ InCS(p)]_vars

\* C18 (amended): every mutation of the task store is performed by a
\* handler that holds the exclusive lock, with no read lock held and no
\* other handler inside a critical section; AddTool changes the registry
\* and the hardware set without touching the lock.
C18_StoreMutationsExclusive ==
    /\ [][stack' # stack
          => \E p \in Procs :
                /\ lock.w = p /\ InCS(p) /\ pc'[p] # pc[p]
                /\ lock.readers = 0
                /\ \A q \in Procs \ {p} : ~HoldsLock(q)]_vars
    /\ [][(tools' # tools \/ hardware' # hardware)
          => lock' = lock]_vars

C18_Witness ==
    \E p, q \in Procs :
        /\ call[p].op = "TaskQuit" /\ pc[p] = "unlock" /\ lock.w = p
        /\ ~Present(stack, call[p].id)
        /\ call[q].op = "ResourceHardware" /\ pc[q] = "rwait"
        /\ Len(tools) > 0

\* C19 (as stated): TaskStatus, AllTaskStatus, ResourceTools and
\* ResourceHardware acquire the lock in shared mode: whichever of them is
\* inside its critical section holds a read lock and not the writer's.
ReadOnlyOps == {"TaskStatus", "AllTaskStatus", "ResourceTools",
                "ResourceHardware"}

C19_ReadersShareTheLock ==
    \A p \in Procs :
        (call[p].op \in ReadOnlyOps /\ HoldsLock(p))
        => (~InCS(p) /\ lock.readers >= 1)

\* C19 (amended): ResourceTools and ResourceHardware acquire the lock in
\* shared mode and are never inside their critical sections while a
\* handler holds the exclusive lock; TaskStatus and AllTaskStatus acquire
\* it in exclusive mode, so neither is ever inside its critical section
\* together with any other handler.
C19_ReadLockModes ==
    \A p \in Procs :
        /\ (call[p].op \in {"ResourceTools", "ResourceHardware"}
            /\ HoldsLock(p))
           => (/\ ~InCS(p) /\ lock.readers >= 1
               /\ \A q \in Procs : ~InCS(q))
        /\ (call[p].op \in {"TaskStatus", "AllTaskStatus"} /\ HoldsLock(p))
           => (/\ InCS(p) /\ lock.w = p /\ lock.readers = 0
               /\ \A q \in Procs \ {p} : ~HoldsLock(q))

C19_Witness ==
    \E p, q \in Procs :
        /\ p # q
        /\ call[p].op = "ResourceTools" /\ pc[p] = "rbody"
        /\ call[q].op = "ResourceHardware" /\ pc[q] = "rbody"
        /\ lock.readers = 2

\* C20: every operation releases on each of its return paths the lock it
\* acquired: in every state in which no operation is in progress the
\* lock has no reader and no writer.
C20_LockReleasedOnReturn ==
    Quiescent => lock = FreeLock

====
